---- MODULE Spec2Model ----
(***************************************************************************)
(* Model of EmissionSystem (pl_aa_emissions_calc.py): a fixed per-period   *)
(* token budget is split over pillars in proportion to the users' points;  *)
(* a user who does not claim a pillar carries the points into the next     *)
(* period.                                                                 *)
(*                                                                         *)
(* Python dicts are functions (DOMAIN = the keys).  Points are integers.   *)
(* Weights, emission percentages and token amounts are exact rationals     *)
(* <<numerator, denominator>> in lowest terms with a positive denominator, *)
(* so that equal amounts are equal values.                                 *)
(*                                                                         *)
(* Spec takes process_snapshot as one step.  SpecUpload folds the rows of  *)
(* an uploaded table into the argument dicts (main).  SpecSteps follows    *)
(* process_snapshot statement by statement for two threads that share the  *)
(* engine, with the rollover dicts as objects.                             *)
(***************************************************************************)
EXTENDS Integers, Sequences

\* ------------------------------------------------------------- bounds
\* Largest number of points one user earns (or, with a caller that sends
\* negative points, loses) in one pillar in one period.
MaxPoint == 1
\* process_snapshot is not called with inputs that would bring the points
\* held in the configured pillars, summed in absolute value over users and
\* pillars, above this.
MaxTotal == 3
\* Largest number of rows of an uploaded table.
MaxRows == 3
\* Largest number of process_snapshot calls followed statement by statement.
MaxCalls == 3

Users == {"A", "B"}
\* Pillar names that inputs may use; the configuration owns a subset.
PillarNames == {"p1", "p2"}
Points == 0..MaxPoint
\* Negative points are not rejected.
SignedPoints == (0 - MaxPoint)..MaxPoint

\* ------------------------------------------------------------- rationals
Abs(n) == IF n < 0 THEN -n ELSE n

RECURSIVE GCD(_, _)
GCD(a, b) == IF b = 0 THEN a ELSE GCD(b, a % b)

\* n/d in lowest terms, d # 0.
Rat(n, d) ==
    LET g == GCD(Abs(n), Abs(d))
        s == IF d < 0 THEN -1 ELSE 1
    IN  <<(s * n) \div g, (s * d) \div g>>

RZero == <<0, 1>>
RMul(x, y) == Rat(x[1] * y[1], x[2] * y[2])

\* ------------------------------------------------------------- dicts
EmptyDict == [k \in {} |-> 0]

\* d.get(k, default)
Get(d, k, default) == IF k \in DOMAIN d THEN d[k] ELSE default

\* Sum of f[k] over k in S (integers).
RECURSIVE SumOver(_, _)
SumOver(f, S) ==
    IF S = {} THEN 0
    ELSE LET k == CHOOSE x \in S : TRUE
         IN  f[k] + SumOver(f, S \ {k})

\* ------------------------------------------------------------- state
VARIABLES
    total_emissions,    \* self.total_emissions
    pillar_configs,     \* self.pillar_configs: pillar -> [weight, emission_pct]
    rollover_points,    \* self.rollover_points: user -> pillar -> points
    called,             \* the caller holds the result of a process_snapshot call
    new_contributions,  \* argument of the last call
    claim_decisions,    \* argument of the last call
    rollover_before,    \* self.rollover_points when the last call started
    tokens_allocated,   \* local tokens_allocated of the last call
    result,             \* value returned by the last call
    since_claim,        \* history: user -> pillar -> points contributed in the
                        \* periods after the user's last claim of the pillar
    emptied,            \* history: pillars whose total was 0 in the period
                        \* before the current one
    caller,             \* who calls process_snapshot: "plain" or "signed"
    negative_sent,      \* history: some call was given a negative point
    rows,               \* main: the rows of the uploaded table read so far
    heap,               \* the rollover dicts as objects: reference -> contents
    rollover_ref,       \* the reference self.rollover_points holds
    frames,             \* thread -> position and locals of its call
    log,                \* history: the arguments of the calls, in entry order
    overlapped          \* history: a call was entered during another call

vars == <<total_emissions, pillar_configs, rollover_points, called,
          new_contributions, claim_decisions, rollover_before,
          tokens_allocated, result, since_claim, emptied, caller,
          negative_sent, rows, heap, rollover_ref, frames, log, overlapped>>

\* The variables of the statement-by-statement description of a call, and
\* those that no statement of process_snapshot writes.
statements == <<heap, rollover_ref, frames, log, overlapped>>
untouched == <<total_emissions, pillar_configs, called, new_contributions,
               claim_decisions, rollover_before, tokens_allocated, result,
               since_claim, emptied, caller, negative_sent, rows>>

Pillars == DOMAIN pillar_configs

\* ------------------------------------------------------------- inputs
\* A caller that names both pillars and sends non-negative points, and one
\* that names one pillar and sends negative points too.
PlainCaller == [names |-> PillarNames, points |-> Points]
SignedCaller == [names |-> {"p1"}, points |-> SignedPoints]
Callers == [plain |-> PlainCaller, signed |-> SignedCaller]

\* The engines that are constructed, (total_emissions, pillar_configs), and
\* their callers: one pillar (then "p2" is an unknown pillar) or two, and a
\* positive or a negative budget.
OnePillar ==
    [p \in {"p1"} |-> [weight |-> <<1, 1>>, emission_pct |-> <<1, 4>>]]
TwoPillars ==
    [p \in {"p1", "p2"} |->
        IF p = "p1" THEN [weight |-> <<1, 1>>, emission_pct |-> <<1, 4>>]
                    ELSE [weight |-> <<3, 2>>, emission_pct |-> <<1, 2>>]]
Configurations ==
    { <<8, OnePillar, "plain">>, <<8, TwoPillars, "plain">>,
      <<8, OnePillar, "signed">>, <<-8, OnePillar, "signed">> }

\* A dict without the keys whose value is `default`.
Sparse(d, default) ==
    [k \in {j \in DOMAIN d : d[j] # default} |-> d[k]]

\* A user -> pillar -> value dict written out in full (every user, every
\* pillar name: the manual form) or sparsely (only the entries that differ
\* from the default, users without entries left out: uploaded rows).
DenseDicts(names, V) == [Users -> [names -> V]]
SparseOf(d, default) ==
    Sparse([u \in DOMAIN d |-> Sparse(d[u], default)], EmptyDict)

\* The (new_contributions, claim_decisions) pairs of a caller: both dicts in
\* full, or both sparse.
InputsOf(c) ==
    LET dense == DenseDicts(c.names, c.points) \X DenseDicts(c.names, BOOLEAN)
    IN  dense \cup {<<SparseOf(d[1], 0), SparseOf(d[2], FALSE)>> : d \in dense}

\* The pairs process_snapshot is called with.
SnapshotInputs == InputsOf(PlainCaller) \cup InputsOf(SignedCaller)

\* The caller c uses only its pillar names and its points.
SentBy(c, contributions, claims) ==
    /\ \A u \in DOMAIN contributions :
          /\ DOMAIN contributions[u] \subseteq c.names
          /\ \A p \in DOMAIN contributions[u] : contributions[u][p] \in c.points
    /\ \A u \in DOMAIN claims : DOMAIN claims[u] \subseteq c.names

\* ------------------------------------------------------------- process_snapshot
\* Variant: only the users of this period's contributions are merged.
AllUsersOnlyNew(rollover, contributions) == DOMAIN contributions

\* all_users
AllUsers(rollover, contributions) ==
    DOMAIN rollover \cup DOMAIN contributions

\* Variant: all the points of the user's dict are credited to the pillar.
NewPointsOfAnyPillar(new, pillar) == SumOver(new, DOMAIN new)

\* new.get(pillar, 0)
NewPoints(new, pillar) == Get(new, pillar, 0)

\* Variant: a new contribution replaces the carried points.
CurrentPointsNoCompounding(rollover, contributions) ==
    [user \in AllUsers(rollover, contributions) |->
        LET prev == Get(rollover, user, EmptyDict)
            new  == Get(contributions, user, EmptyDict)
        IN  [pillar \in Pillars |->
                IF NewPoints(new, pillar) # 0
                THEN NewPoints(new, pillar)
                ELSE Get(prev, pillar, 0)]]

\* Variant: the carried points are taken off the new ones.
CurrentPointsNetOfCarry(rollover, contributions) ==
    [user \in AllUsers(rollover, contributions) |->
        LET prev == Get(rollover, user, EmptyDict)
            new  == Get(contributions, user, EmptyDict)
        IN  [pillar \in Pillars |->
                NewPoints(new, pillar) - Get(prev, pillar, 0)]]

\* current_points: rollover merged with the new contributions.
CurrentPoints(rollover, contributions) ==
    [user \in AllUsers(rollover, contributions) |->
        LET prev == Get(rollover, user, EmptyDict)
            new  == Get(contributions, user, EmptyDict)
        IN  [pillar \in Pillars |->
                Get(prev, pillar, 0) + NewPoints(new, pillar)]]

\* Variant: each user's points overwrite the pillar total instead of adding
\* to it, so the total is the points of the user visited last.
PillarTotalsLastUser(current_points) ==
    [pillar \in Pillars |->
        IF DOMAIN current_points = {}
        THEN 0
        ELSE current_points[CHOOSE user \in DOMAIN current_points : TRUE][pillar]]

\* pillar_totals
PillarTotals(current_points) ==
    [pillar \in Pillars |->
        SumOver([user \in DOMAIN current_points |-> current_points[user][pillar]],
                DOMAIN current_points)]

\* Variant: the emission percentage is left out of the budget.
TokensAllocatedWithoutPct ==
    [pillar \in Pillars |->
        RMul(<<total_emissions, 1>>, pillar_configs[pillar].weight)]

\* tokens_allocated
TokensAllocated ==
    [pillar \in Pillars |->
        RMul(<<total_emissions, 1>>,
             RMul(pillar_configs[pillar].weight,
                  pillar_configs[pillar].emission_pct))]

\* Variant: in an empty pillar every user counts for the whole pillar.
ShareWholeWhenEmpty(points, total_points) ==
    IF total_points > 0 THEN Rat(points, total_points) ELSE <<1, 1>>

\* share
Share(points, total_points) ==
    IF total_points > 0 THEN Rat(points, total_points) ELSE RZero

\* Variant: a missing claim entry counts as a claim.
ClaimedByDefault(claims, user, pillar) ==
    Get(Get(claims, user, EmptyDict), pillar, TRUE)

\* claim_decisions.get(user, {}).get(pillar, False)
Claimed(claims, user, pillar) ==
    Get(Get(claims, user, EmptyDict), pillar, FALSE)

\* Variant: user_tokens also lists the users who only sent a decision.
UserTokensForDeciders(current_points, pillar_totals, allocated, claims) ==
    [user \in DOMAIN current_points \cup DOMAIN claims |->
        [pillar \in Pillars |->
            IF user \in DOMAIN current_points /\ Claimed(claims, user, pillar)
            THEN RMul(allocated[pillar],
                      Share(current_points[user][pillar], pillar_totals[pillar]))
            ELSE RZero]]

\* Variant: the budget is shared among the users who claim.
UserTokensAmongClaimers(current_points, pillar_totals, allocated, claims) ==
    [user \in DOMAIN current_points |->
        [pillar \in DOMAIN current_points[user] |->
            LET claimers == {u \in DOMAIN current_points : Claimed(claims, u, pillar)}
                claimed  == SumOver([u \in claimers |-> current_points[u][pillar]],
                                    claimers)
                tokens   == RMul(allocated[pillar],
                                 Share(current_points[user][pillar], claimed))
            IN  IF Claimed(claims, user, pillar) THEN tokens ELSE RZero]]

\* user_tokens
UserTokens(current_points, pillar_totals, allocated, claims) ==
    [user \in DOMAIN current_points |->
        [pillar \in DOMAIN current_points[user] |->
            LET tokens == RMul(allocated[pillar],
                               Share(current_points[user][pillar],
                                     pillar_totals[pillar]))
            IN  IF Claimed(claims, user, pillar) THEN tokens ELSE RZero]]

\* Variant: a claimed pillar is removed from the user's entry.
NewRolloverUnclaimedOnly(current_points, claims) ==
    [user \in DOMAIN current_points |->
        [pillar \in {q \in DOMAIN current_points[user] :
                        ~Claimed(claims, user, q)} |->
            current_points[user][pillar]]]

\* Variant: claimed points are carried forward as well.
NewRolloverKeepsClaimed(current_points, claims) == current_points

\* Variant: users left without points are dropped from the rollover state.
NewRolloverDropsEmpty(current_points, claims) ==
    LET kept == {user \in DOMAIN current_points :
                    \E pillar \in DOMAIN current_points[user] :
                        current_points[user][pillar] # 0}
    IN  [user \in kept |->
            [pillar \in DOMAIN current_points[user] |->
                IF Claimed(claims, user, pillar)
                THEN 0
                ELSE current_points[user][pillar]]]

\* new_rollover
NewRollover(current_points, claims) ==
    [user \in DOMAIN current_points |->
        [pillar \in DOMAIN current_points[user] |->
            IF Claimed(claims, user, pillar)
            THEN 0
            ELSE current_points[user][pillar]]]

\* The value process_snapshot returns from a given rollover state.
Snapshot(rollover, contributions, claims) ==
    LET current_points == CurrentPoints(rollover, contributions)
        pillar_totals  == PillarTotals(current_points)
    IN  [user_tokens     |-> UserTokens(current_points, pillar_totals,
                                        TokensAllocated, claims),
         pillar_totals   |-> pillar_totals,
         current_points  |-> current_points,
         rollover_points |-> NewRollover(current_points, claims)]

\* The users hold no more than MaxTotal points together, in absolute value.
WithinTotal(current_points) ==
    SumOver([user \in DOMAIN current_points |->
                SumOver([pillar \in Pillars |-> Abs(current_points[user][pillar])],
                        Pillars)],
            DOMAIN current_points) <= MaxTotal

\* No call has returned a result that the caller still holds.
NoResult == [user_tokens |-> EmptyDict, pillar_totals |-> EmptyDict,
             current_points |-> EmptyDict, rollover_points |-> EmptyDict]

\* The threads that call process_snapshot on the engine.
Threads == {1, 2}

\* The locals of a thread that is not in a call and has made none.
IdleFrame ==
    [pc             |-> "idle",
     contributions  |-> EmptyDict,   \* new_contributions
     claims         |-> EmptyDict,   \* claim_decisions
     all_users      |-> {},
     order          |-> <<>>,        \* the users in the order the loops visit them
     current_points |-> EmptyDict,
     pillar_totals  |-> EmptyDict,
     user_tokens    |-> EmptyDict,
     new_rollover   |-> 0,           \* reference of the dict new_rollover
     built          |-> 0,           \* users the rollover loop has done
     result         |-> NoResult,    \* returned value
     start          |-> EmptyDict,   \* history: rollover state at entry
     raced          |-> FALSE,       \* history: the call overlapped another
     writes         |-> 0]           \* history: assignments to self.rollover_points

\* EmissionSystem.__init__
Init ==
    /\ \E c \in Configurations :
          /\ total_emissions = c[1]
          /\ pillar_configs = c[2]
          /\ caller = c[3]
    /\ rollover_points = EmptyDict
    /\ called = FALSE
    /\ new_contributions = EmptyDict
    /\ claim_decisions = EmptyDict
    /\ rollover_before = EmptyDict
    /\ tokens_allocated = EmptyDict
    /\ result = NoResult
    /\ since_claim = [u \in Users |-> [p \in DOMAIN pillar_configs |-> 0]]
    /\ emptied = {}
    /\ negative_sent = FALSE
    /\ rows = <<>>
    /\ heap = <<EmptyDict>>
    /\ rollover_ref = 1
    /\ frames = [t \in Threads |-> IdleFrame]
    /\ log = <<>>
    /\ overlapped = FALSE

\* EmissionSystem.process_snapshot
ProcessSnapshot(contributions, claims) ==
    /\ ~called
    /\ SentBy(Callers[caller], contributions, claims)
    /\ WithinTotal(CurrentPoints(rollover_points, contributions))
    /\ LET snapshot == Snapshot(rollover_points, contributions, claims)
       IN  /\ rollover_points' = snapshot.rollover_points
           /\ result' = snapshot
    /\ tokens_allocated' = TokensAllocated
    /\ called' = TRUE
    /\ new_contributions' = contributions
    /\ claim_decisions' = claims
    /\ rollover_before' = rollover_points
    /\ since_claim' =
          [u \in Users |-> [p \in Pillars |->
              IF u \in DOMAIN claims /\ p \in DOMAIN claims[u] /\ claims[u][p]
              THEN 0
              ELSE since_claim[u][p]
                    + (IF u \in DOMAIN contributions /\ p \in DOMAIN contributions[u]
                       THEN contributions[u][p] ELSE 0)]]
    /\ negative_sent' =
          (negative_sent \/ \E u \in DOMAIN contributions :
                               \E p \in DOMAIN contributions[u] :
                                   contributions[u][p] < 0)
    /\ UNCHANGED <<total_emissions, pillar_configs, emptied, caller, rows>>
    /\ UNCHANGED statements

\* The caller is done with the returned SnapshotResult; the period ends.
DiscardResult ==
    /\ called
    /\ called' = FALSE
    /\ new_contributions' = EmptyDict
    /\ claim_decisions' = EmptyDict
    /\ rollover_before' = EmptyDict
    /\ tokens_allocated' = EmptyDict
    /\ result' = NoResult
    /\ emptied' = {p \in Pillars : result.pillar_totals[p] = 0}
    /\ UNCHANGED <<total_emissions, pillar_configs, rollover_points, since_claim,
                   caller, negative_sent, rows>>
    /\ UNCHANGED statements

Next ==
    \/ \E in \in SnapshotInputs : ProcessSnapshot(in[1], in[2])
    \/ DiscardResult

Spec == Init /\ [][Next]_vars

\* ------------------------------------------------------------- main: upload
\* A text is a sequence of characters.  The texts of the claim column: yes,
\* yes in mixed case between blanks, no, and yes with a blank inside.
Yes == <<"y", "e", "s">>
ClaimTexts ==
    { Yes,
      <<" ", "Y", "e", "S", "\t">>,
      <<"n", "o">>,
      <<"y", "e", " ", "s">> }

\* The characters str.strip() removes.
Whitespace == {" ", "\t", "\n"}
\* The upper-case letters of the texts and their lower-case forms.
LowerCase == [Y |-> "y", E |-> "e", S |-> "s", N |-> "n", O |-> "o"]

\* str.strip(): the text without its leading and trailing whitespace.
RECURSIVE Strip(_)
Strip(text) ==
    IF text = <<>> THEN text
    ELSE IF Head(text) \in Whitespace THEN Strip(Tail(text))
    ELSE IF text[Len(text)] \in Whitespace
         THEN Strip(SubSeq(text, 1, Len(text) - 1))
    ELSE text

\* str.lower()
Lower(text) ==
    [i \in DOMAIN text |->
        IF text[i] \in DOMAIN LowerCase THEN LowerCase[text[i]] ELSE text[i]]

\* Variant: the text is compared as it stands.
ClaimOfTextVerbatim(text) == text = Yes

\* claim: str(row["claim"]).strip().lower() == "yes"
ClaimOfText(text) == Lower(Strip(text)) = Yes

\* Points of uploaded rows; float() keeps the value of a number.
UploadPoints == {1, 2}
\* The rows a table is made of.
UploadRows ==
    [user : Users, pillar : PillarNames, points : UploadPoints,
     claim : ClaimTexts]

\* Variant: the points of a row replace those of the earlier rows.
FoldedContributionsLastRow(contributions, row) ==
    LET entry == Get(contributions, row.user, EmptyDict)
    IN  [u \in DOMAIN contributions \cup {row.user} |->
            IF u = row.user
            THEN [p \in DOMAIN entry \cup {row.pillar} |->
                    IF p = row.pillar THEN row.points ELSE entry[p]]
            ELSE contributions[u]]

\* contributions after a row: a new user gets an entry, and the row's points
\* are added to contributions[user].get(pillar, 0).
FoldedContributions(contributions, row) ==
    LET entry == Get(contributions, row.user, EmptyDict)
    IN  [u \in DOMAIN contributions \cup {row.user} |->
            IF u = row.user
            THEN [p \in DOMAIN entry \cup {row.pillar} |->
                    IF p = row.pillar
                    THEN Get(entry, row.pillar, 0) + row.points
                    ELSE entry[p]]
            ELSE contributions[u]]

\* claim_decisions after a row: a new user gets an entry, and the row's claim
\* replaces claim_decisions[user][pillar].
FoldedClaims(claims, row) ==
    LET entry == Get(claims, row.user, EmptyDict)
    IN  [u \in DOMAIN claims \cup {row.user} |->
            IF u = row.user
            THEN [p \in DOMAIN entry \cup {row.pillar} |->
                    IF p = row.pillar THEN ClaimOfText(row.claim) ELSE entry[p]]
            ELSE claims[u]]

\* An engine whose caller uploads a table.
InitUpload ==
    /\ Init
    /\ pillar_configs = TwoPillars
    /\ caller = "plain"

\* One turn of the loop over df.iterrows(): the next row of the table is
\* folded into contributions and claim_decisions.
FoldRow(row) ==
    /\ Len(rows) < MaxRows
    /\ rows' = Append(rows, row)
    /\ new_contributions' = FoldedContributions(new_contributions, row)
    /\ claim_decisions' = FoldedClaims(claim_decisions, row)
    /\ UNCHANGED <<total_emissions, pillar_configs, rollover_points, called,
                   rollover_before, tokens_allocated, result, since_claim,
                   emptied, caller, negative_sent>>
    /\ UNCHANGED statements

NextUpload == \E row \in UploadRows : FoldRow(row)

SpecUpload == InitUpload /\ [][NextUpload]_vars

\* ------------------------------------------------------------- statements
\* process_snapshot statement by statement, called by threads that nothing
\* keeps apart.  The rollover dicts are objects of `heap`; rollover_points
\* is the content of the one self.rollover_points refers to.

\* A user -> pillar -> value dict with the value v in pillar "p1" for `users`.
InP1(users, v) == [u \in users |-> [p \in {"p1"} |-> v]]
\* The (new_contributions, claim_decisions) pairs of the threads.
StepInputs ==
    { <<InP1({"A", "B"}, 1), EmptyDict>>,
      <<EmptyDict, EmptyDict>>,
      <<InP1({"A"}, 1), InP1({"B"}, TRUE)>> }

\* d with d[k] = v
Put(d, k, v) == [j \in DOMAIN d \cup {k} |-> IF j = k THEN v ELSE d[j]]

\* The thread is inside process_snapshot.
InCall(t) == frames[t].pc \in {"merge", "rollover", "return"}

\* Variant: the points the user carried are not read.
MergedEntryNewOnly(rollover, contributions, user) ==
    [pillar \in Pillars |->
        NewPoints(Get(contributions, user, EmptyDict), pillar)]

\* current_points[user] of one turn of the merge loop
MergedEntry(rollover, contributions, user) ==
    LET prev == Get(rollover, user, EmptyDict)
        new  == Get(contributions, user, EmptyDict)
    IN  [pillar \in Pillars |-> Get(prev, pillar, 0) + NewPoints(new, pillar)]

\* Variant: each user's points overwrite the totals.
PillarTotalsOverwritten(current_points, order) ==
    IF order = <<>> THEN [pillar \in Pillars |-> 0]
    ELSE [pillar \in Pillars |-> current_points[order[Len(order)]][pillar]]

\* pillar_totals, accumulated over current_points.values() in dict order
RECURSIVE PillarTotalsOver(_, _)
PillarTotalsOver(current_points, order) ==
    IF order = <<>> THEN [pillar \in Pillars |-> 0]
    ELSE LET before == PillarTotalsOver(current_points,
                                        SubSeq(order, 1, Len(order) - 1))
         IN  [pillar \in Pillars |->
                 before[pillar] + current_points[order[Len(order)]][pillar]]

\* new_rollover[user] of one turn of the rollover loop
RolloverEntry(pts, claims, user) ==
    [pillar \in DOMAIN pts |->
        IF Claimed(claims, user, pillar) THEN 0 ELSE pts[pillar]]

\* Variant: the rollover loop writes into the dict the engine holds.
RolloverTargetInPlace(frame) == rollover_ref

\* The dict the rollover loop writes into: the local new_rollover.
RolloverTarget(frame) == frame.new_rollover

\* Entry of the call: all_users is built from the keys of the rollover dict
\* and of new_contributions.
Call(t, contributions, claims) ==
    /\ ~InCall(t)
    /\ Len(log) < MaxCalls
    /\ LET others == {s \in Threads \ {t} : InCall(s)}
       IN  /\ frames' =
                 [s \in Threads |->
                     IF s = t
                     THEN [IdleFrame EXCEPT
                              !.pc = "merge",
                              !.contributions = contributions,
                              !.claims = claims,
                              !.all_users = AllUsers(heap[rollover_ref],
                                                     contributions),
                              !.start = heap[rollover_ref],
                              !.raced = (others # {})]
                     ELSE IF s \in others
                          THEN [frames[s] EXCEPT !.raced = TRUE]
                          ELSE frames[s]]
           /\ overlapped' = (overlapped \/ others # {})
    /\ log' = Append(log, <<contributions, claims>>)
    /\ UNCHANGED <<heap, rollover_ref, rollover_points, untouched>>

\* One turn of the merge loop, for a user of all_users not yet visited: the
\* user's carried points are read from the dict the engine holds now.
MergeUser(t, user) ==
    /\ frames[t].pc = "merge"
    /\ user \in frames[t].all_users \ DOMAIN frames[t].current_points
    /\ frames' =
          [frames EXCEPT
              ![t].current_points =
                  Put(@, user, MergedEntry(heap[rollover_ref],
                                           frames[t].contributions, user)),
              ![t].order = Append(@, user)]
    /\ UNCHANGED <<heap, rollover_ref, rollover_points, log, overlapped, untouched>>

\* After the merge loop: pillar_totals, tokens_allocated, user_tokens, and
\* the empty dict new_rollover.
Compute(t) ==
    /\ frames[t].pc = "merge"
    /\ DOMAIN frames[t].current_points = frames[t].all_users
    /\ LET pillar_totals == PillarTotalsOver(frames[t].current_points,
                                             frames[t].order)
       IN  frames' =
              [frames EXCEPT
                  ![t].pc = "rollover",
                  ![t].pillar_totals = pillar_totals,
                  ![t].user_tokens =
                      UserTokens(frames[t].current_points, pillar_totals,
                                 TokensAllocated, frames[t].claims),
                  ![t].new_rollover = Len(heap) + 1]
    /\ heap' = Append(heap, EmptyDict)
    /\ UNCHANGED <<rollover_ref, rollover_points, log, overlapped, untouched>>

\* One turn of the rollover loop, for the next user of current_points.
RolloverUser(t) ==
    /\ frames[t].pc = "rollover"
    /\ frames[t].built < Len(frames[t].order)
    /\ LET user   == frames[t].order[frames[t].built + 1]
           target == RolloverTarget(frames[t])
       IN  heap' = [heap EXCEPT
                      ![target] =
                          Put(@, user,
                              RolloverEntry(frames[t].current_points[user],
                                            frames[t].claims, user))]
    /\ frames' = [frames EXCEPT ![t].built = @ + 1]
    /\ rollover_points' = heap'[rollover_ref]
    /\ UNCHANGED <<rollover_ref, log, overlapped, untouched>>

\* self.rollover_points = new_rollover
Replace(t) ==
    /\ frames[t].pc = "rollover"
    /\ frames[t].built = Len(frames[t].order)
    /\ rollover_ref' = frames[t].new_rollover
    /\ rollover_points' = heap[frames[t].new_rollover]
    /\ frames' = [frames EXCEPT ![t].pc = "return", ![t].writes = @ + 1]
    /\ UNCHANGED <<heap, log, overlapped, untouched>>

\* return {...}: "rollover_points" is the dict the engine holds now.
Return(t) ==
    /\ frames[t].pc = "return"
    /\ frames' =
          [frames EXCEPT
              ![t].pc = "done",
              ![t].result =
                  [user_tokens     |-> frames[t].user_tokens,
                   pillar_totals   |-> frames[t].pillar_totals,
                   current_points  |-> frames[t].current_points,
                   rollover_points |-> heap[rollover_ref]]]
    /\ UNCHANGED <<heap, rollover_ref, rollover_points, log, overlapped, untouched>>

\* An engine with one pillar.
InitSteps ==
    /\ Init
    /\ total_emissions = 8
    /\ pillar_configs = OnePillar
    /\ caller = "plain"

NextSteps ==
    \E t \in Threads :
        \/ \E in \in StepInputs : Call(t, in[1], in[2])
        \/ \E user \in Users : MergeUser(t, user)
        \/ Compute(t)
        \/ RolloverUser(t)
        \/ Replace(t)
        \/ Return(t)

SpecSteps == InitSteps /\ [][NextSteps]_vars

\* ------------------------------------------------------------- properties
\* What the last call was given and what it started from, read directly
\* from the argument dicts (an absent user or pillar counts as 0 / no claim).
ClaimOf(u, p) ==
    /\ u \in DOMAIN claim_decisions
    /\ p \in DOMAIN claim_decisions[u]
    /\ claim_decisions[u][p] = TRUE
NewOf(u, p) ==
    IF u \in DOMAIN new_contributions /\ p \in DOMAIN new_contributions[u]
    THEN new_contributions[u][p] ELSE 0
PriorOf(u, p) ==
    IF u \in DOMAIN rollover_before /\ p \in DOMAIN rollover_before[u]
    THEN rollover_before[u][p] ELSE 0
ResultUsers == DOMAIN result.current_points

\* C1: after a call, for every user of the result and every configured
\* pillar, the engine's rollover_points[user][pillar] is 0 if the user
\* claimed the pillar and the call's current_points[user][pillar] otherwise;
\* the returned rollover_points is the engine's.
RolloverCorrectness ==
    called =>
        /\ result.rollover_points = rollover_points
        /\ \A u \in ResultUsers : \A p \in Pillars :
              /\ u \in DOMAIN rollover_points
              /\ p \in DOMAIN rollover_points[u]
              /\ rollover_points[u][p] =
                    IF ClaimOf(u, p) THEN 0 ELSE result.current_points[u][p]

\* A user defers a pillar that holds carried and new points (the full merged
\* total is carried), while a user with points claims one.
RolloverCorrectnessWitness ==
    /\ called
    /\ \E u \in ResultUsers, p \in Pillars :
          /\ ~ClaimOf(u, p) /\ PriorOf(u, p) > 0 /\ NewOf(u, p) > 0
          /\ rollover_points[u][p] = PriorOf(u, p) + NewOf(u, p)
    /\ \E u \in ResultUsers, p \in Pillars :
          /\ ClaimOf(u, p) /\ result.current_points[u][p] > 0
          /\ rollover_points[u][p] = 0

\* C2: the users of current_points are the users of the prior rollover
\* state and of new_contributions, and for each of them and each configured
\* pillar current_points is the prior rollover (0 if absent) plus the new
\* contribution (0 if absent), whatever the other users hold.
CurrentPointsMerge ==
    called =>
        /\ ResultUsers = DOMAIN rollover_before \cup DOMAIN new_contributions
        /\ \A u \in ResultUsers :
              /\ DOMAIN result.current_points[u] = Pillars
              /\ \A p \in Pillars :
                    result.current_points[u][p] = PriorOf(u, p) + NewOf(u, p)

\* One user comes from the rollover state alone, another from the new
\* contributions alone, and a third case adds new points to carried ones.
CurrentPointsMergeWitness ==
    /\ called
    /\ \E u \in DOMAIN rollover_before \ DOMAIN new_contributions, p \in Pillars :
          result.current_points[u][p] > 0
    /\ \E v \in DOMAIN new_contributions \ DOMAIN rollover_before, p \in Pillars :
          result.current_points[v][p] > 0

\* C3: user_tokens[user][pillar] is tokens_allocated[pillar] *
\* current_points[user][pillar] / pillar_totals[pillar] when the user's claim
\* is explicitly true and the pillar total is positive, and 0 otherwise;
\* pillar_totals[pillar] is the sum of current_points over all users.
UserTokensFormula ==
    called =>
        /\ DOMAIN result.user_tokens = ResultUsers
        /\ DOMAIN result.pillar_totals = Pillars
        /\ \A p \in Pillars :
              result.pillar_totals[p] =
                  SumOver([u \in ResultUsers |-> result.current_points[u][p]],
                          ResultUsers)
        /\ \A u \in ResultUsers :
              /\ DOMAIN result.user_tokens[u] = Pillars
              /\ \A p \in Pillars :
                    LET tokens == result.user_tokens[u][p]
                        total  == result.pillar_totals[p]
                        points == result.current_points[u][p]
                        budget == tokens_allocated[p]
                    IN  IF ClaimOf(u, p) /\ total > 0
                        THEN tokens[1] * budget[2] * total
                                = budget[1] * points * tokens[2]
                        ELSE tokens = RZero

\* A claimer is paid a proper fraction of the budget because a non-claimer's
\* points count in the total, and a user without a claim entry gets 0.
UserTokensFormulaWitness ==
    /\ called
    /\ \E u \in ResultUsers, v \in ResultUsers, p \in Pillars :
          /\ u # v
          /\ ClaimOf(u, p) /\ ~ClaimOf(v, p)
          /\ result.current_points[u][p] > 0
          /\ result.current_points[v][p] > result.current_points[u][p]
          /\ v \notin DOMAIN claim_decisions
          /\ result.user_tokens[u][p] # RZero
          /\ result.user_tokens[u][p] # tokens_allocated[p]
          /\ result.user_tokens[v][p] = RZero
\* Sums and comparison of token amounts.
RAdd(x, y) == Rat(x[1] * y[2] + y[1] * x[2], x[2] * y[2])
RLeq(x, y) == x[1] * y[2] <= y[1] * x[2]
RECURSIVE RSumOver(_, _)
RSumOver(f, S) ==
    IF S = {} THEN RZero
    ELSE LET k == CHOOSE x \in S : TRUE
         IN  RAdd(f[k], RSumOver(f, S \ {k}))

\* The budget of pillar p, computed from the configuration.
BudgetOf(p) ==
    RMul(<<total_emissions, 1>>,
         RMul(pillar_configs[p].weight, pillar_configs[p].emission_pct))
\* The tokens the last call awarded in pillar p, summed over the users.
AwardedIn(p) ==
    RSumOver([u \in DOMAIN result.user_tokens |-> result.user_tokens[u][p]],
             DOMAIN result.user_tokens)
\* Every user with nonzero points in pillar p claimed it.
AllHoldersClaim(p) ==
    \A u \in ResultUsers : result.current_points[u][p] # 0 => ClaimOf(u, p)

\* C4 as stated: whenever every user with nonzero points in a pillar claims
\* it, the tokens awarded in the pillar add up to tokens_allocated[pillar] =
\* total_emissions * weight * emission_pct.
Conservation ==
    called =>
        \A p \in Pillars :
            AllHoldersClaim(p) =>
                /\ tokens_allocated[p] = BudgetOf(p)
                /\ AwardedIn(p) = tokens_allocated[p]

\* C4, amended: the same for a pillar whose total is positive.
ConservationOfHeldPillar ==
    called =>
        \A p \in Pillars :
            (result.pillar_totals[p] > 0 /\ AllHoldersClaim(p)) =>
                /\ tokens_allocated[p] = BudgetOf(p)
                /\ AwardedIn(p) = tokens_allocated[p]

\* Two users hold different amounts in a pillar, both claim, and the budget
\* is handed out in full.
ConservationWitness ==
    /\ called
    /\ \E p \in Pillars, u \in ResultUsers, v \in ResultUsers :
          /\ result.current_points[u][p] > result.current_points[v][p]
          /\ result.current_points[v][p] > 0
          /\ AllHoldersClaim(p)
          /\ AwardedIn(p) = BudgetOf(p)
          /\ BudgetOf(p) # RZero

\* C5: the engine's rollover_points[user][pillar] (0 when absent) is the sum
\* of the user's new contributions to the pillar over the periods after the
\* user's last claim of it; and a user who contributes nothing and claims is
\* credited the full carried total.
RolloverCompounds ==
    /\ \A u \in Users : \A p \in Pillars :
          (IF u \in DOMAIN rollover_points /\ p \in DOMAIN rollover_points[u]
           THEN rollover_points[u][p] ELSE 0) = since_claim[u][p]
    /\ called =>
          \A u \in ResultUsers : \A p \in Pillars :
              (ClaimOf(u, p) /\ NewOf(u, p) = 0) =>
                  result.current_points[u][p] = PriorOf(u, p)

\* A user who deferred in two periods and contributed in both claims without
\* a new contribution and is paid on the carried total.
RolloverCompoundsWitness ==
    /\ called
    /\ \E u \in ResultUsers, p \in Pillars :
          /\ ClaimOf(u, p) /\ NewOf(u, p) = 0
          /\ PriorOf(u, p) = 2
          /\ result.current_points[u][p] = 2
          /\ result.pillar_totals[p] = 3
          /\ result.user_tokens[u][p] # RZero

\* C6: process_snapshot({}, {}) returns the per-pillar sums of the prior
\* rollover state as pillar_totals, awards no tokens, and leaves the
\* engine's rollover state as it was.
ZeroInputStep ==
    (called /\ new_contributions = EmptyDict /\ claim_decisions = EmptyDict) =>
        /\ DOMAIN result.pillar_totals = Pillars
        /\ \A p \in Pillars :
              result.pillar_totals[p] =
                  SumOver([u \in DOMAIN rollover_before |-> rollover_before[u][p]],
                          DOMAIN rollover_before)
        /\ \A u \in DOMAIN result.user_tokens :
              \A p \in DOMAIN result.user_tokens[u] :
                  result.user_tokens[u][p] = RZero
        /\ rollover_points = rollover_before

\* The zero-input call from a state that carries points for one user and
\* zeros for another.
ZeroInputStepWitness ==
    /\ called /\ new_contributions = EmptyDict /\ claim_decisions = EmptyDict
    /\ \E u \in DOMAIN rollover_before, v \in DOMAIN rollover_before :
          /\ \E p \in Pillars : rollover_before[u][p] > 0
          /\ \A p \in Pillars : rollover_before[v][p] = 0

\* The configuration has no negative number in it and no call was given
\* negative points.
NonNegativeInputs ==
    /\ ~negative_sent
    /\ total_emissions >= 0
    /\ \A p \in Pillars :
          /\ pillar_configs[p].weight[1] >= 0
          /\ pillar_configs[p].emission_pct[1] >= 0

\* C7: in a period where pillar_totals[pillar] is 0 every user_tokens of the
\* pillar is 0, claimed or not; and in every period, also one that follows
\* an empty one, the budget is the same tokens_allocated[pillar] and, for
\* non-negative inputs, the tokens awarded in the pillar do not exceed it.
EmptyPillarForfeits ==
    called =>
        \A p \in Pillars :
            /\ result.pillar_totals[p] = 0 =>
                  \A u \in ResultUsers : result.user_tokens[u][p] = RZero
            /\ tokens_allocated[p] = BudgetOf(p)
            /\ NonNegativeInputs => RLeq(AwardedIn(p), BudgetOf(p))

\* A pillar that was empty in the previous period pays out exactly its
\* budget now, while a user claims in a pillar that is empty now.
EmptyPillarForfeitsWitness ==
    /\ called
    /\ NonNegativeInputs
    /\ \E p \in emptied :
          /\ result.pillar_totals[p] > 0
          /\ BudgetOf(p) # RZero
          /\ AwardedIn(p) = BudgetOf(p)
    /\ \E q \in Pillars, u \in ResultUsers :
          /\ result.pillar_totals[q] = 0
          /\ BudgetOf(q) # RZero
          /\ ClaimOf(u, q)
\* claims with user v's decision on pillar q reversed.
FlipClaim(claims, v, q) ==
    LET mine == Get(claims, v, EmptyDict)
        flipped == [p \in DOMAIN mine \cup {q} |->
                       IF p = q THEN ~Get(mine, q, FALSE) ELSE mine[p]]
    IN  [u \in DOMAIN claims \cup {v} |-> IF u = v THEN flipped ELSE claims[u]]

\* C8: with the configuration, the prior rollover state and the new
\* contributions fixed, reversing any one claim decision of another user
\* leaves a user's tokens as they are, and leaves pillar_totals, in which
\* the points of non-claimers count, as they are.
ClaimIndependence ==
    called =>
        \A v \in Users, q \in PillarNames :
            LET other == Snapshot(rollover_before, new_contributions,
                                  FlipClaim(claim_decisions, v, q))
            IN  /\ other.pillar_totals = result.pillar_totals
                /\ \A u \in ResultUsers \ {v} :
                      /\ u \in DOMAIN other.user_tokens
                      /\ other.user_tokens[u] = result.user_tokens[u]

\* A claimer shares a pillar with a user who holds points and does not
\* claim: the claimer is paid less than the budget, the rest goes to nobody.
ClaimIndependenceWitness ==
    /\ called
    /\ \E u \in ResultUsers, v \in ResultUsers, p \in Pillars :
          /\ u # v
          /\ ClaimOf(u, p) /\ ~ClaimOf(v, p)
          /\ result.current_points[u][p] > 0
          /\ result.current_points[v][p] > 0
          /\ result.user_tokens[u][p] # RZero
          /\ AwardedIn(p) # BudgetOf(p)
          /\ result.pillar_totals[p] =
                result.current_points[u][p] + result.current_points[v][p]

\* C9: when total_emissions, the weights, the emission percentages and all
\* the points of every call so far are non-negative, every value of
\* pillar_totals, user_tokens and rollover_points is non-negative.
NonNegativity ==
    NonNegativeInputs =>
        /\ \A p \in DOMAIN result.pillar_totals : result.pillar_totals[p] >= 0
        /\ \A u \in DOMAIN result.user_tokens :
              \A p \in DOMAIN result.user_tokens[u] :
                  result.user_tokens[u][p][1] >= 0
        /\ \A u \in DOMAIN result.rollover_points :
              \A p \in DOMAIN result.rollover_points[u] :
                  result.rollover_points[u][p] >= 0
        /\ \A u \in DOMAIN rollover_points :
              \A p \in DOMAIN rollover_points[u] :
                  rollover_points[u][p] >= 0

\* A call on carried points that pays one user and carries another's.
NonNegativityWitness ==
    /\ called
    /\ NonNegativeInputs
    /\ \E u \in DOMAIN rollover_before, p \in Pillars : rollover_before[u][p] > 0
    /\ \E u \in ResultUsers, p \in Pillars : result.user_tokens[u][p][1] > 0
    /\ \E u \in DOMAIN rollover_points, p \in Pillars : rollover_points[u][p] > 0

\* A user -> pillar -> value dict without the unconfigured pillars.
ConfiguredOnly(d) ==
    [u \in DOMAIN d |-> [p \in DOMAIN d[u] \cap Pillars |-> d[u][p]]]
\* Every user's keys in a user -> pillar -> value dict are configured.
ConfiguredKeys(d) == \A u \in DOMAIN d : DOMAIN d[u] \subseteq Pillars

\* C10: the result of a call and the rollover state it leaves are those of
\* the same call without the entries of unconfigured pillars, and no
\* unconfigured pillar is ever a key of user_tokens, pillar_totals,
\* current_points, rollover_points or the engine's rollover state.
UnknownPillarsIgnored ==
    /\ ConfiguredKeys(rollover_points)
    /\ ConfiguredKeys(result.user_tokens)
    /\ ConfiguredKeys(result.current_points)
    /\ ConfiguredKeys(result.rollover_points)
    /\ DOMAIN result.pillar_totals \subseteq Pillars
    /\ called =>
          /\ result = Snapshot(rollover_before,
                               ConfiguredOnly(new_contributions),
                               ConfiguredOnly(claim_decisions))
          /\ rollover_points = result.rollover_points

\* A call that brings points and a claim for an unconfigured pillar, on a
\* rollover state left by an earlier call that did so too.
UnknownPillarsIgnoredWitness ==
    /\ called
    /\ \E u \in DOMAIN new_contributions, x \in PillarNames \ Pillars :
          /\ x \in DOMAIN new_contributions[u]
          /\ new_contributions[u][x] > 0
          /\ ClaimOf(u, x)
          /\ \E p \in Pillars : PriorOf(u, p) > 0 /\ NewOf(u, p) > 0
    /\ \E v \in ResultUsers, p \in Pillars : result.user_tokens[v][p] # RZero

\* The users who sent a decision without contributing and without carrying
\* anything into the call.
DecidersOnly ==
    DOMAIN claim_decisions \ (DOMAIN new_contributions \cup DOMAIN rollover_before)
\* A dict without the key v.
Without(d, v) == [k \in DOMAIN d \ {v} |-> d[k]]

\* C11: a user who appears only in claim_decisions has no effect: the result
\* of the call and the rollover state it leaves are those of the same call
\* with that user's decisions removed, and the user appears in none of them.
DeciderOnlyHasNoEffect ==
    called =>
        \A v \in DecidersOnly :
            /\ result = Snapshot(rollover_before, new_contributions,
                                 Without(claim_decisions, v))
            /\ rollover_points = result.rollover_points
            /\ v \notin DOMAIN rollover_points
            /\ v \notin DOMAIN result.user_tokens
            /\ v \notin DOMAIN result.current_points

\* A user who holds nothing sends a claim while another user claims points
\* and is paid.
DeciderOnlyHasNoEffectWitness ==
    /\ called
    /\ \E v \in DecidersOnly, p \in Pillars :
          /\ ClaimOf(v, p)
          /\ \E u \in ResultUsers :
                /\ ClaimOf(u, p)
                /\ result.user_tokens[u][p] # RZero
                /\ PriorOf(u, p) > 0

\* C15: with non-negative total_emissions, weights, emission percentages and
\* contribution points, the tokens paid to all users in a pillar in one call
\* never exceed the pillar's tokens_allocated, whatever has been carried and
\* whoever claims.
IssuanceCap ==
    (called /\ NonNegativeInputs) =>
        \A p \in Pillars :
            RLeq(RSumOver([u \in ResultUsers |-> result.user_tokens[u][p]],
                          ResultUsers),
                 tokens_allocated[p])

\* Two users who both carried points, one of them more than a single period
\* can bring, claim a pillar together and are paid the whole budget.
IssuanceCapWitness ==
    /\ called
    /\ NonNegativeInputs
    /\ \E p \in Pillars :
          /\ \A u \in Users :
                /\ u \in ResultUsers
                /\ PriorOf(u, p) > 0
                /\ ClaimOf(u, p)
                /\ result.user_tokens[u][p] # RZero
          /\ \E u \in Users : PriorOf(u, p) > MaxPoint
          /\ AwardedIn(p) = tokens_allocated[p]
          /\ tokens_allocated[p][1] > 0

\* C16: a call never removes a user from the rollover state, every user of
\* the call's new_contributions is in the rollover state it leaves, and every
\* entry of the rollover state has exactly the configured pillars as keys.
RolloverKeysMonotone ==
    [][ /\ DOMAIN rollover_points \subseteq DOMAIN rollover_points'
        /\ (called' /\ ~called) =>
              DOMAIN new_contributions' \subseteq DOMAIN rollover_points'
        /\ \A u \in DOMAIN rollover_points' :
              DOMAIN rollover_points'[u] = Pillars ]_vars

\* A user who claimed everything earlier, and so carries 0 in every pillar,
\* is absent from a call's arguments and is still in the rollover state, with
\* 0 in every configured pillar.
RolloverKeysMonotoneWitness ==
    /\ called
    /\ \E u \in DOMAIN rollover_before :
          /\ u \notin DOMAIN new_contributions
          /\ u \notin DOMAIN claim_decisions
          /\ \A p \in Pillars : rollover_before[u][p] = 0
          /\ u \in DOMAIN rollover_points
          /\ DOMAIN rollover_points[u] = Pillars
          /\ \A p \in Pillars : rollover_points[u][p] = 0
          /\ \E w \in DOMAIN rollover_points \ {u}, p \in Pillars :
                rollover_points[w][p] > 0

\* The positions of the uploaded rows of user u and pillar p.
RowsOf(u, p) ==
    {i \in 1..Len(rows) : rows[i].user = u /\ rows[i].pillar = p}
\* The largest position in a non-empty set of positions.
LastOf(S) == CHOOSE i \in S : \A j \in S : j <= i
\* The text is "yes" in any case, with whitespace before and after only.
SaysYes(text) ==
    \E i \in 1..Len(text) :
        /\ i + 2 <= Len(text)
        /\ text[i] \in {"y", "Y"}
        /\ text[i + 1] \in {"e", "E"}
        /\ text[i + 2] \in {"s", "S"}
        /\ \A j \in 1..Len(text) : (j < i \/ j > i + 2) => text[j] \in Whitespace

\* C17: after the rows read so far, contributions[user][pillar] is the sum of
\* the points of the rows of that user and pillar, claim_decisions[user][pillar]
\* is the claim of the last such row, true exactly when its text, trimmed and
\* lower-cased, is "yes", and a user or pillar without a row has no entry.
UploadFolding ==
    /\ DOMAIN new_contributions = {rows[i].user : i \in 1..Len(rows)}
    /\ DOMAIN claim_decisions = DOMAIN new_contributions
    /\ \A u \in DOMAIN new_contributions :
          /\ DOMAIN new_contributions[u] = {p \in PillarNames : RowsOf(u, p) # {}}
          /\ DOMAIN claim_decisions[u] = DOMAIN new_contributions[u]
          /\ \A p \in DOMAIN new_contributions[u] :
                /\ new_contributions[u][p] =
                      SumOver([i \in RowsOf(u, p) |-> rows[i].points], RowsOf(u, p))
                /\ claim_decisions[u][p] = SaysYes(rows[LastOf(RowsOf(u, p))].claim)

\* Three rows of one user and pillar with different points, the first saying
\* yes and the last saying no, and the sum is that of the three.
UploadFoldingWitness ==
    /\ Len(rows) = MaxRows
    /\ \E u \in Users, p \in PillarNames :
          /\ RowsOf(u, p) = 1..MaxRows
          /\ rows[1].points # rows[MaxRows].points
          /\ SaysYes(rows[1].claim)
          /\ rows[1].claim # Yes
          /\ ~SaysYes(rows[MaxRows].claim)
          /\ claim_decisions[u][p] = FALSE
          /\ new_contributions[u][p] > rows[MaxRows].points + rows[1].points

\* The rollover state that calls with the arguments of `calls`, made one
\* after the other on a new engine, leave.
RECURSIVE SerialOutcome(_)
SerialOutcome(calls) ==
    IF calls = <<>> THEN EmptyDict
    ELSE LET last == calls[Len(calls)]
         IN  Snapshot(SerialOutcome(SubSeq(calls, 1, Len(calls) - 1)),
                      last[1], last[2]).rollover_points
\* The orders in which n calls can be made one after the other.
Orders(n) ==
    {f \in [1..n -> 1..n] : \A i, j \in 1..n : f[i] = f[j] => i = j}
\* The rollover states the logged calls leave when made in some order.
SerialOutcomes ==
    {SerialOutcome([i \in 1..Len(log) |-> log[f[i]]]) : f \in Orders(Len(log))}
\* No thread is inside process_snapshot.
Quiet == \A t \in Threads : ~InCall(t)
\* The thread's call has run alone up to its return or past it.
RanAlone(t) == frames[t].pc \in {"return", "done"} /\ ~frames[t].raced
\* What the arguments and the rollover state at entry determine.
ExpectedOf(t) ==
    Snapshot(frames[t].start, frames[t].contributions, frames[t].claims)

\* C12: a call that no other call overlaps returns, and leaves as rollover
\* state, what its configuration, the rollover state at entry and its
\* arguments determine, in whatever order the loops visit the users; so two
\* such calls with the same rollover state at entry and the same arguments
\* return the same result.
Determinism ==
    /\ \A t \in Threads :
          RanAlone(t) =>
             /\ frames[t].pc = "done" => frames[t].result = ExpectedOf(t)
             /\ frames[t].pc = "return" =>
                   rollover_points = ExpectedOf(t).rollover_points
    /\ \A t1, t2 \in Threads :
          ( /\ frames[t1].pc = "done" /\ ~frames[t1].raced
            /\ frames[t2].pc = "done" /\ ~frames[t2].raced
            /\ frames[t1].start = frames[t2].start
            /\ frames[t1].contributions = frames[t2].contributions
            /\ frames[t1].claims = frames[t2].claims )
          => frames[t1].result = frames[t2].result

\* Two calls that ran alone from the same rollover state with the same
\* arguments visited the two users in opposite orders and returned the same
\* result, with points in the pillar.
DeterminismWitness ==
    /\ \E t1, t2 \in Threads :
          /\ frames[t1].pc = "done" /\ ~frames[t1].raced
          /\ frames[t2].pc = "done" /\ ~frames[t2].raced
          /\ frames[t1].start = frames[t2].start
          /\ frames[t1].contributions = frames[t2].contributions
          /\ frames[t1].claims = frames[t2].claims
          /\ frames[t1].order = <<"A", "B">>
          /\ frames[t2].order = <<"B", "A">>
          /\ frames[t1].result = frames[t2].result
          /\ frames[t1].result.pillar_totals["p1"] > 1
    /\ ~overlapped

\* The dicts of the heap that a rollover loop is still filling.
UnderConstruction ==
    {frames[t].new_rollover : t \in {s \in Threads : frames[s].pc = "rollover"}}

\* C13: no statement of process_snapshot changes total_emissions,
\* pillar_configs, the arguments of a call in progress or the contents of a
\* rollover dict that is complete (the one the engine holds included); the
\* engine's rollover state is empty before the first call and changes only
\* by the assignment that ends the rollover loop, once per call, to the
\* complete new_rollover of that call; the engine never holds a dict that a
\* rollover loop is still filling.
SingleSideEffect ==
    [][ /\ total_emissions' = total_emissions
        /\ pillar_configs' = pillar_configs
        /\ \A t \in Threads :
              InCall(t) =>
                 /\ frames'[t].contributions = frames[t].contributions
                 /\ frames'[t].claims = frames[t].claims
        /\ \A ref \in (1..Len(heap)) \ UnderConstruction :
              heap'[ref] = heap[ref]
        /\ log = <<>> => (rollover_points = EmptyDict /\ heap[rollover_ref] = EmptyDict)
        /\ rollover_points' = heap'[rollover_ref']
        /\ (rollover_ref' # rollover_ref \/ rollover_points' # rollover_points) =>
              \E t \in Threads :
                 /\ frames[t].pc = "rollover"
                 /\ frames'[t].pc = "return"
                 /\ DOMAIN frames[t].current_points = frames[t].all_users
                 /\ rollover_ref' = frames[t].new_rollover
                 /\ rollover_points' = NewRollover(frames[t].current_points,
                                                   frames[t].claims)
        /\ rollover_ref' \notin
              {frames'[t].new_rollover :
                  t \in {s \in Threads : frames'[s].pc = "rollover"}}
        /\ \A t \in Threads :
              /\ frames'[t].writes <= 1
              /\ (frames'[t].pc = "done" /\ frames[t].pc # "done") =>
                    frames'[t].writes = 1 ]_vars

\* A rollover loop has filled in one of two users, one entry reset by a
\* claim, while the engine still holds the earlier, different, non-empty
\* rollover state with the contents it had when the call started.
SingleSideEffectWitness ==
    \E t \in Threads :
        /\ frames[t].pc = "rollover"
        /\ ~frames[t].raced
        /\ frames[t].built = 1
        /\ Len(frames[t].order) = 2
        /\ DOMAIN heap[frames[t].new_rollover] = {frames[t].order[1]}
        /\ rollover_ref # frames[t].new_rollover
        /\ rollover_points = frames[t].start
        /\ \E u \in DOMAIN rollover_points : rollover_points[u]["p1"] > 0
        /\ \E u \in DOMAIN rollover_points :
              /\ rollover_points[u]["p1"] > 0
              /\ Claimed(frames[t].claims, u, "p1")

\* C14: when no call was entered during another call, the rollover state
\* left by the calls is that of the same calls made one after the other in
\* entry order; so a rollover state that no order of the calls made one
\* after the other leaves is reached only by calls that overlapped.
RaceFreeIsSerial ==
    (Quiet /\ ~overlapped) => rollover_points = SerialOutcome(log)

\* Two calls overlapped and left a rollover state that neither order of the
\* two leaves: a user's unclaimed contribution is lost.
RaceFreeIsSerialWitness ==
    /\ Quiet
    /\ overlapped
    /\ Len(log) = 2
    /\ \A t \in Threads : frames[t].pc = "done"
    /\ rollover_points \notin SerialOutcomes
    /\ \E u \in Users :
          /\ \E i \in 1..2 :
                /\ u \in DOMAIN log[i][1]
                /\ log[i][1][u]["p1"] > 0
          /\ \A i \in 1..2 : ~Claimed(log[i][2], u, "p1")
          /\ u \notin DOMAIN rollover_points

====
